---------------------------- MODULE Spec2Model ----------------------------
(***************************************************************************)
(* Model of make_swi.py: one run of main(), which resolves the latest GFS  *)
(* cycle from the clock, downloads a subset, derives the SWI field,        *)
(* renders it to OUT_PNG and writes the metadata record to OUT_META.       *)
(*                                                                         *)
(* Representation choices:                                                 *)
(*  - a datetime is a record [day, hour, minute, second]; microseconds     *)
(*    are dropped (replace() zeroes them, nothing else reads them);        *)
(*  - degrees are integers in tenths of a degree, temperatures integers    *)
(*    in hundredths of a kelvin, divergence integers in 1e-9 1/s (so the   *)
(*    1e-9 guard of scale_01 is the integer 1);                            *)
(*  - a float is an exact rational [nan, n, d] with d > 0, or NaN;         *)
(*  - the grid is flattened to the cells 1..NCells.                        *)
(***************************************************************************)
EXTENDS Integers, Sequences, FiniteSets, TLC

\* ----------------------------- bounds ---------------------------------
\* Largest day number the clock of the cycle-resolution runs is drawn from.
MaxDay == 1
\* Number of grid cells of a dataset.
NCells == 2

Cells == 1..NCells

\* ----------------------------- settings -------------------------------
\* BBOX = (lonW, lonE, latS, latN), in tenths of a degree.
BBOX == <<-920, -740, 405, 495>>

LEVELS == <<0, 10, 20, 30, 40, 50, 70>>

\* A mutation of COLORS: the first entry is an opaque colour.
COLORS_FirstOpaque ==
    << [hex |-> "#4cc9f0",   alpha |-> 255],
       [hex |-> "#4cc9f0",   alpha |-> 255],
       [hex |-> "#4895ef",   alpha |-> 255],
       [hex |-> "#4361ee",   alpha |-> 255],
       [hex |-> "#f59e0b",   alpha |-> 255],
       [hex |-> "#ef4444",   alpha |-> 255],
       [hex |-> "#b91c1c",   alpha |-> 255] >>

\* COLORS, each entry with the alpha its hex string denotes (#rrggbbaa, or
\* #rrggbb which is opaque).
COLORS ==
    << [hex |-> "#00000000", alpha |-> 0],
       [hex |-> "#4cc9f0",   alpha |-> 255],
       [hex |-> "#4895ef",   alpha |-> 255],
       [hex |-> "#4361ee",   alpha |-> 255],
       [hex |-> "#f59e0b",   alpha |-> 255],
       [hex |-> "#ef4444",   alpha |-> 255],
       [hex |-> "#b91c1c",   alpha |-> 255] >>

\* ----------------------------- datetimes ------------------------------
DateTime(d, h, m, s) == [day |-> d, hour |-> h, minute |-> m, second |-> s]

\* Seconds since day 0, 00:00:00: the order datetime comparison uses.
ToSec(t) == ((t.day * 24 + t.hour) * 60 + t.minute) * 60 + t.second

\* now_utc.replace(hour=h, minute=0, second=0, microsecond=0)
ReplaceHour(t, h) == DateTime(t.day, h, 0, 0)

\* t - dt.timedelta(days=n)
MinusDays(t, n) == DateTime(t.day - n, t.hour, t.minute, t.second)

\* A mutation of latest_cycle: the comparison is strict (ctime < now_utc).
latest_cycle_strict(now_utc) ==
    LET hs == <<18, 12, 6, 0>>
        ok == {i \in 1..4 : ToSec(ReplaceHour(now_utc, hs[i])) < ToSec(now_utc)}
    IN  IF ok # {}
        THEN ReplaceHour(now_utc, hs[CHOOSE i \in ok : \A j \in ok : i <= j])
        ELSE ReplaceHour(MinusDays(now_utc, 1), 18)

\* latest_cycle: the first h of [18, 12, 6, 0] whose boundary on now's day
\* is <= now; otherwise the previous day's 18Z.
latest_cycle(now_utc) ==
    LET hs == <<18, 12, 6, 0>>
        ok == {i \in 1..4 : ToSec(ReplaceHour(now_utc, hs[i])) <= ToSec(now_utc)}
    IN  IF ok # {}
        THEN ReplaceHour(now_utc, hs[CHOOSE i \in ok : \A j \in ok : i <= j])
        ELSE ReplaceHour(MinusDays(now_utc, 1), 18)

\* datetime.isoformat() + "Z": the fields in the order the string holds
\* them (date, hour, minute, second) and the suffix.
IsoFormat(t) == <<t.day, t.hour, t.minute, t.second, "Z">>

\* strftime("%Y%m%d") and strftime("%H")
Ymd(t) == <<"ymd", t.day>>
HH(t) == <<"hh", t.hour>>

\* str(x) of a float given in tenths: sign, integer part, one decimal.
Str(x) ==
    LET a == IF x < 0 THEN -x ELSE x
    IN  <<IF x < 0 THEN "-" ELSE "", a \div 10, ".", a % 10>>

\* The query parameters fetch_gfs_subset builds from its arguments.
RequestParams(ts_cycle, bbox) ==
    LET leftlon == bbox[1]
        rightlon == bbox[2]
        lats == bbox[3]
        latn == bbox[4]
    IN  [file |-> <<"gfs.t", HH(ts_cycle), "z.pgrb2.0p25.f000">>,
         levels |-> {"lev_surface", "lev_10_m_above_ground", "lev_850_mb"},
         vars |-> {"var_tmp", "var_ugrd", "var_vgrd", "var_cape"},
         leftlon |-> Str(leftlon),
         rightlon |-> Str(rightlon),
         toplat |-> Str(latn),
         bottomlat |-> Str(lats),
         dir |-> <<"/gfs.", Ymd(ts_cycle), "/", HH(ts_cycle), "/atmos">>,
         format |-> "netcdf"]

\* ----------------------------- floats ---------------------------------
Rat(n, d) == [nan |-> FALSE, n |-> n, d |-> d]
NaN == [nan |-> TRUE, n |-> 0, d |-> 1]

\* x < y and x <= y and x >= y of floats: every comparison with NaN is false.
FLt(x, y) == ~x.nan /\ ~y.nan /\ x.n * y.d < y.n * x.d
FLe(x, y) == ~x.nan /\ ~y.nan /\ x.n * y.d <= y.n * x.d
FGe(x, y) == FLe(y, x)

\* The exact square root of a perfect square (the largest r with r*r <= x).
Sqrt(x) == CHOOSE r \in 0..x : r * r <= x /\ (r + 1) * (r + 1) > x

Max(a, b) == IF a >= b THEN a ELSE b
Min(a, b) == IF a <= b THEN a ELSE b

\* ----------------------------- derivation -----------------------------
\* The variables build_swi reads from the dataset.
RequiredVars ==
    {"lat", "lon", "tmp_surface", "tmp_850mb", "ugrd_10m", "vgrd_10m",
     "cape_surface"}

\* The array sorted ascending, as np.nanquantile orders it.
SortedArr(arr) ==
    CHOOSE s \in [Cells -> {arr[c] : c \in Cells}] :
        /\ \A i \in Cells : \A j \in Cells : i <= j => s[i] <= s[j]
        /\ \A v \in {arr[c] : c \in Cells} :
              Cardinality({c \in Cells : s[c] = v})
                  = Cardinality({c \in Cells : arr[c] = v})

\* 100 * np.nanquantile(a, q100 / 100): linear interpolation between the two
\* order statistics around the virtual index q * (n - 1).
Quantile100(arr, q100) ==
    LET s == SortedArr(arr)
        pos == q100 * (NCells - 1)
        j == pos \div 100
        g == pos % 100
    IN  100 * s[j + 1] + g * (s[Min(j + 2, NCells)] - s[j + 1])

\* scale_01(arr) with qmin=0.05, qmax=0.95, clip=True:
\* (a - lo) / (hi - lo + 1e-9), clipped to [0, 1].
scale_01(arr) ==
    LET lo == Quantile100(arr, 5)
        hi == Quantile100(arr, 95)
        den == hi - lo + 100
    IN  [c \in Cells |->
            LET num == 100 * arr[c] - lo
            IN  IF num <= 0 THEN Rat(0, 1)
                ELSE IF num >= den THEN Rat(1, 1)
                ELSE Rat(num, den)]

\* finite_diff_divergence(lon, lat, u10, v10): the dataset carries the 10 m
\* winds through the divergence they give at each cell.
finite_diff_divergence(ds) == ds.div

\* build_swi: swi = dT * depth_km * conv_s at every cell, with dT in
\* hundredths of a degree and depth_km = sqrt(max(cape, 0)) / 10.
build_swi(ds) ==
    LET conv_s == scale_01([c \in Cells |-> -finite_diff_divergence(ds)[c]])
    IN  [c \in Cells |->
            LET dT == (ds.tmp_surface[c] - 27315) - (ds.tmp_850mb[c] - 27315)
                depth10 == Sqrt(Max(ds.cape_surface[c], 0))
            IN  Rat(dT * depth10 * conv_s[c].n, 1000 * conv_s[c].d)]

\* ----------------------------- classification -------------------------
\* A mutation of Digitize: the bins are closed on the right
\* (np.digitize(x, bins, right=True)).
DigitizeRight(x, bins) ==
    IF x.nan THEN Len(bins)
    ELSE Cardinality({i \in 1..Len(bins) : FLt(Rat(bins[i], 1), x)})

\* np.digitize(x, bins) for increasing bins: the number of bins <= x
\* (bins[i-1] <= x < bins[i] gives i); NaN sorts after every bin.
Digitize(x, bins) ==
    IF x.nan THEN Len(bins)
    ELSE Cardinality({i \in 1..Len(bins) : FLe(Rat(bins[i], 1), x)})

\* int(q) of a quotient a / b with b > 0: truncation toward zero.
TruncDiv(a, b) == IF a >= 0 THEN a \div b ELSE -((-a) \div b)

\* BoundaryNorm(boundaries, ncolors, clip=False)(x): the region index,
\* stretched to the colour range when there are more colours than regions,
\* -1 below the first boundary and ncolors at or above the last.
BoundaryNorm(boundaries, ncolors, x) ==
    LET n_regions == Len(boundaries) - 1
        region == Digitize(x, boundaries) - 1
        iret == IF ncolors > n_regions
                THEN IF n_regions = 1
                     THEN (IF region = 0 THEN (ncolors - 1) \div 2 ELSE region)
                     ELSE TruncDiv((ncolors - 1) * region, n_regions - 1)
                ELSE region
    IN  IF FLt(x, Rat(boundaries[1], 1)) THEN -1
        ELSE IF FGe(x, Rat(boundaries[Len(boundaries)], 1)) THEN ncolors
        ELSE iret

\* The colour of masked (non-finite) cells: transparent black.
BadColor == [hex |-> "#00000000", alpha |-> 0]

\* ListedColormap(colors)(i): under-range indices take the first colour,
\* over-range indices the last.
ListedColormap(colors, i) ==
    IF i < 0 THEN colors[1]
    ELSE IF i >= Len(colors) THEN colors[Len(colors)]
    ELSE colors[i + 1]

\* The colour pcolormesh gives one cell: non-finite values are masked.
CellColor(v) ==
    IF v.nan THEN BadColor
    ELSE ListedColormap(COLORS, BoundaryNorm(LEVELS, Len(COLORS), v))

\* ----------------------------- state -----------------------------------
VARIABLES
    pc,        \* where main() is: start, resolved, fetched, derived,
               \* rendered, done, failed
    now,       \* dt.datetime.utcnow() of this run
    pubLag,    \* hours after its boundary at which the source publishes a cycle
    cyc,       \* the cycle latest_cycle returned
    requests,  \* the HTTP requests issued so far, in order
    ds,        \* the dataset fetch_gfs_subset returned
    swi,       \* the field build_swi returned
    png,       \* the content of OUT_PNG
    meta,      \* the content of OUT_META
    failure,   \* the stage and exception that ended the run, if any
    exitCode   \* the exit status of the process, -1 while it runs

vars == <<pc, now, pubLag, cyc, requests, ds, swi, png, meta, failure, exitCode>>

\* ----------------------------- inputs ----------------------------------
\* Clock values of the pipeline runs: on a boundary, just after one, inside
\* a cycle, and at the end of a day.
NowSamples ==
    {DateTime(0, 0, 0, 0), DateTime(0, 0, 30, 0), DateTime(0, 11, 0, 0),
     DateTime(0, 18, 0, 0), DateTime(0, 23, 59, 59)}

\* Clock values of the cycle-resolution runs.
NowAll ==
    {DateTime(d, h, m, s) : d \in 0..MaxDay, h \in 0..23,
                            m \in {0, 1, 59}, s \in {0, 1, 59}}

\* Publication lags of the source, in hours: none, a few hours, and longer
\* than three days.
PubLags == {0, 4, 80}

NoTime == DateTime(-1000, 0, 0, 0)

\* Per-cell inputs: surface temperature below, equal to and above the
\* 850 hPa temperature, CAPE, and divergence.
TmpSurfaceValues == {25315, 26315, 29815}
Tmp850Value == [c \in Cells |-> 26315]
CapeValues == {0, 400}
DivValues == {-30, 20}

Dataset(vs, ts, cape, div) ==
    [vars |-> vs, tmp_surface |-> ts, tmp_850mb |-> Tmp850Value,
     cape_surface |-> cape, div |-> div]

NoDs == Dataset({}, [c \in Cells |-> 0], [c \in Cells |-> 0], [c \in Cells |-> 0])

\* What the source may answer: complete datasets over every grid of inputs,
\* and datasets from which one data variable is absent.
Datasets ==
    {Dataset(RequiredVars, ts, cape, div) :
        ts \in [Cells -> TmpSurfaceValues],
        cape \in [Cells -> CapeValues],
        div \in [Cells -> DivValues]}
    \cup
    {Dataset(RequiredVars \ {v}, [c \in Cells |-> 26315], [c \in Cells |-> 0],
             [c \in Cells |-> 20]) :
        v \in {"tmp_surface", "tmp_850mb", "ugrd_10m", "vgrd_10m", "cape_surface"}}

NoSwi == [c \in Cells |-> NaN]

\* The artifacts published by an earlier run.
OldPng == [run |-> 0, complete |-> TRUE, levels |-> LEVELS,
           pixels |-> [c \in Cells |-> BadColor]]
OldMeta == [run |-> 0, complete |-> TRUE,
            doc |-> [generated_utc |-> IsoFormat(NoTime),
                     cycle_utc |-> IsoFormat(NoTime),
                     bounds |-> [lon_w |-> BBOX[1], lon_e |-> BBOX[2],
                                 lat_s |-> BBOX[3], lat_n |-> BBOX[4]],
                     levels |-> LEVELS]]

NoFailure == [stage |-> "none", cause |-> "none"]

\* The source has published cycle c when its lag has passed.
Published(c) == ToSec(now) - ToSec(c) >= pubLag * 3600

\* ----------------------------- operations ------------------------------
Init ==
    /\ pc = "start"
    /\ now \in NowSamples
    /\ pubLag \in PubLags
    /\ cyc = NoTime
    /\ requests = <<>>
    /\ ds = NoDs
    /\ swi = NoSwi
    /\ png = OldPng
    /\ meta = OldMeta
    /\ failure = NoFailure
    /\ exitCode = -1

\* A mutation of Abort: the exception is swallowed and the process exits 0.
AbortExitZero(stage, cause) ==
    /\ pc' = "failed"
    /\ failure' = [stage |-> stage, cause |-> cause]
    /\ exitCode' = 0

\* An exception raised in main() is not caught: it propagates out of
\* sys.exit(main()) and the interpreter exits with status 1.
Abort(stage, cause) ==
    /\ pc' = "failed"
    /\ failure' = [stage |-> stage, cause |-> cause]
    /\ exitCode' = 1

\* cyc = latest_cycle(now)
LatestCycle ==
    /\ pc = "start"
    /\ cyc' = latest_cycle(now)
    /\ pc' = "resolved"
    /\ UNCHANGED <<now, pubLag, requests, ds, swi, png, meta, failure, exitCode>>

Request(ts_cycle, bbox) ==
    [ts_cycle |-> ts_cycle, bbox |-> bbox, params |-> RequestParams(ts_cycle, bbox)]

\* ds = fetch_gfs_subset(cyc, BBOX): the request is answered 200 and the
\* body opens as a dataset.
FetchOk ==
    /\ pc = "resolved"
    /\ Published(cyc)
    /\ requests' = Append(requests, Request(cyc, BBOX))
    /\ \E d \in Datasets : ds' = d
    /\ pc' = "fetched"
    /\ UNCHANGED <<now, pubLag, cyc, swi, png, meta, failure, exitCode>>

\* fetch_gfs_subset: the request is answered with a non-2xx status (404 for
\* a cycle that is not published, 5xx for a transient server failure) and
\* r.raise_for_status() raises.
FetchHttpError ==
    /\ pc = "resolved"
    /\ requests' = Append(requests, Request(cyc, BBOX))
    /\ \E status \in (IF Published(cyc) THEN {"500", "503"} ELSE {"404"}) :
          Abort("fetch", status)
    /\ UNCHANGED <<now, pubLag, cyc, ds, swi, png, meta>>

\* fetch_gfs_subset: requests.get raises (connection error or the 120 s
\* timeout).
FetchNetworkError ==
    /\ pc = "resolved"
    /\ requests' = Append(requests, Request(cyc, BBOX))
    /\ Abort("fetch", "network")
    /\ UNCHANGED <<now, pubLag, cyc, ds, swi, png, meta>>

HasCoords(d) ==
    /\ "lat" \in d.vars \/ "latitude" \in d.vars
    /\ "lon" \in d.vars \/ "longitude" \in d.vars

HasFields(d) ==
    {"tmp_surface", "tmp_850mb", "ugrd_10m", "vgrd_10m", "cape_surface"} \subseteq d.vars

\* lon, lat, swi = build_swi(ds)
BuildSwiOk ==
    /\ pc = "fetched"
    /\ HasCoords(ds) /\ HasFields(ds)
    /\ swi' = build_swi(ds)
    /\ pc' = "derived"
    /\ UNCHANGED <<now, pubLag, cyc, requests, ds, png, meta, failure, exitCode>>

\* build_swi: ds[name] raises KeyError for a variable that is absent.
BuildSwiKeyError ==
    /\ pc = "fetched"
    /\ ~(HasCoords(ds) /\ HasFields(ds))
    /\ Abort("derive", "KeyError")
    /\ UNCHANGED <<now, pubLag, cyc, requests, ds, swi, png, meta>>

\* The image render_contours saves for a field.
Image(field) ==
    [run |-> 1, complete |-> TRUE, levels |-> LEVELS,
     pixels |-> [c \in Cells |-> CellColor(field[c])]]

\* A file of this run that was opened for writing and not completed.
PartialPng == [run |-> 1, complete |-> FALSE, levels |-> LEVELS,
               pixels |-> [c \in Cells |-> BadColor]]

\* render_contours(lon, lat, swi, OUT_PNG) returns: OUT_PNG holds the image.
RenderContoursOk ==
    /\ pc = "derived"
    /\ png' = Image(swi)
    /\ pc' = "rendered"
    /\ UNCHANGED <<now, pubLag, cyc, requests, ds, swi, meta, failure, exitCode>>

\* render_contours raises: before plt.savefig opened OUT_PNG (mkdir or the
\* drawing failed), or while it was writing it.
RenderContoursError ==
    /\ pc = "derived"
    /\ \E opened \in BOOLEAN : png' = IF opened THEN PartialPng ELSE png
    /\ Abort("render", "OSError")
    /\ UNCHANGED <<now, pubLag, cyc, requests, ds, swi, meta>>

\* A mutation of MetaDoc: lat_s and lat_n are taken from the wrong entries
\* of BBOX.
MetaDocSwapped(t_now, t_cyc) ==
    [generated_utc |-> IsoFormat(t_now),
     cycle_utc |-> IsoFormat(t_cyc),
     bounds |-> [lon_w |-> BBOX[1], lon_e |-> BBOX[2],
                 lat_s |-> BBOX[4], lat_n |-> BBOX[3]],
     levels |-> LEVELS]

\* The meta dictionary main() builds.
MetaDoc(t_now, t_cyc) ==
    [generated_utc |-> IsoFormat(t_now),
     cycle_utc |-> IsoFormat(t_cyc),
     bounds |-> [lon_w |-> BBOX[1], lon_e |-> BBOX[2],
                 lat_s |-> BBOX[3], lat_n |-> BBOX[4]],
     levels |-> LEVELS]

\* OUT_META.write_text(json.dumps(meta, indent=2)) returns; main() returns
\* None and sys.exit(None) exits 0.
WriteMetaOk ==
    /\ pc = "rendered"
    /\ meta' = [run |-> 1, complete |-> TRUE, doc |-> MetaDoc(now, cyc)]
    /\ pc' = "done"
    /\ exitCode' = 0
    /\ UNCHANGED <<now, pubLag, cyc, requests, ds, swi, png, failure>>

\* OUT_META.write_text raises: before the file was opened (it keeps its
\* content) or after (it is truncated or partly written).
WriteMetaError ==
    /\ pc = "rendered"
    /\ \E opened \in BOOLEAN :
          meta' = IF opened
                  THEN [run |-> 1, complete |-> FALSE, doc |-> MetaDoc(now, cyc)]
                  ELSE meta
    /\ Abort("meta", "OSError")
    /\ UNCHANGED <<now, pubLag, cyc, requests, ds, swi, png>>

Next ==
    \/ LatestCycle
    \/ FetchOk
    \/ FetchHttpError
    \/ FetchNetworkError
    \/ BuildSwiOk
    \/ BuildSwiKeyError
    \/ RenderContoursOk
    \/ RenderContoursError
    \/ WriteMetaOk
    \/ WriteMetaError

\* One run of main().
Spec == Init /\ [][Next]_vars

\* latest_cycle applied to every clock value of two days.
CycleInit ==
    /\ pc = "start"
    /\ now \in NowAll
    /\ pubLag = 0
    /\ cyc = NoTime
    /\ requests = <<>>
    /\ ds = NoDs
    /\ swi = NoSwi
    /\ png = OldPng
    /\ meta = OldMeta
    /\ failure = NoFailure
    /\ exitCode = -1

CycleSpec == CycleInit /\ [][LatestCycle]_vars

\* Index values handed to the renderer: below, on, between and above the
\* breakpoints, and a non-finite value.
RenderValues ==
    {Rat(-5, 1), Rat(0, 1), Rat(1, 2), Rat(5, 1), Rat(10, 1), Rat(15, 1),
     Rat(20, 1), Rat(25, 1), Rat(30, 1), Rat(35, 1), Rat(40, 1), Rat(45, 1),
     Rat(50, 1), Rat(60, 1), Rat(70, 1), Rat(80, 1), NaN}

\* render_contours applied to every field over RenderValues.
RenderInit ==
    /\ pc = "derived"
    /\ now = DateTime(0, 11, 0, 0)
    /\ pubLag = 0
    /\ cyc = latest_cycle(now)
    /\ requests = <<Request(cyc, BBOX)>>
    /\ ds = NoDs
    /\ swi \in [Cells -> RenderValues]
    /\ png = OldPng
    /\ meta = OldMeta
    /\ failure = NoFailure
    /\ exitCode = -1

RenderNext ==
    \/ RenderContoursOk
    \/ RenderContoursError

RenderSpec == RenderInit /\ [][RenderNext]_vars

\* ----------------------------- claims ----------------------------------
Ended == exitCode # -1
PngNew == png.run = 1 /\ png.complete
MetaNew == meta.run = 1 /\ meta.complete

\* C1: whenever a run of main() has ended, normally or by a failure at any
\* point, OUT_PNG and OUT_META are both the ones this run wrote or both the
\* ones that existed before it.
C1_PublishAtomicity ==
    Ended => \/ PngNew /\ MetaNew
             \/ png = OldPng /\ meta = OldMeta

\* C2: a run that fails in the download or on an absent variable leaves
\* OUT_PNG and OUT_META as they were before the run and exits non-zero.
C2_FatalBeforeRenderLeavesArtifacts ==
    (pc = "failed" /\ failure.stage \in {"fetch", "derive"}) =>
        /\ png = OldPng
        /\ meta = OldMeta
        /\ Ended
        /\ exitCode # 0

C2_Witness ==
    /\ pc = "failed"
    /\ failure = [stage |-> "derive", cause |-> "KeyError"]
    /\ "cape_surface" \notin ds.vars
    /\ Len(requests) = 1

\* C3: latest_cycle returns the most recent 00/06/12/18 UTC boundary at or
\* before now: hour in {0, 6, 12, 18}, zero minutes and seconds, not after
\* now, less than 6 hours before now.
C3_LatestCycleIsLastBoundary ==
    pc = "resolved" =>
        /\ cyc.hour \in {0, 6, 12, 18}
        /\ cyc.minute = 0
        /\ cyc.second = 0
        /\ ToSec(cyc) <= ToSec(now)
        /\ ToSec(now) - ToSec(cyc) < 6 * 3600
        /\ \A d \in (now.day - 1)..now.day : \A h \in {0, 6, 12, 18} :
              ToSec(DateTime(d, h, 0, 0)) <= ToSec(now)
                  => ToSec(DateTime(d, h, 0, 0)) <= ToSec(cyc)

C3_Witness ==
    /\ pc = "resolved"
    /\ now = DateTime(1, 6, 0, 0)
    /\ cyc = DateTime(1, 6, 0, 0)

\* The datetime s seconds after day 0, 00:00:00.
FromSec(s) ==
    DateTime(s \div 86400, (s % 86400) \div 3600, (s % 3600) \div 60, s % 60)

\* The k-th candidate of cycle discovery: k steps of 6 hours before the
\* boundary at or before now.
Candidate(k) == FromSec(ToSec(latest_cycle(now)) - k * 6 * 3600)

\* C4: cycle discovery probes candidates 6 hours apart in decreasing order,
\* and the cycle the run uses is the first candidate the source has
\* published: with the boundary at or before now unpublished, the run steps
\* back to an earlier cycle.
C4_FirstAvailableCycleUsed ==
    LET avail == {k \in 0..11 : Published(Candidate(k))}
        first == CHOOSE k \in avail : \A j \in avail : k <= j
        transient == failure.stage = "fetch" /\ failure.cause \in {"500", "503", "network"}
    IN  (Ended /\ avail # {} /\ ~transient) =>
            /\ \A i \in 2..Len(requests) :
                  ToSec(requests[i - 1].ts_cycle) - ToSec(requests[i].ts_cycle) = 6 * 3600
            /\ requests[Len(requests)].ts_cycle = Candidate(first)
            /\ failure.cause # "404"

\* C5: when the cycle is not yet published and the request for it is
\* answered with a non-2xx status, the run is skipped: OUT_PNG and OUT_META
\* stay intact and the process exits with status 0.
C5_SoftFailureExitsZero ==
    (pc = "failed" /\ failure.stage = "fetch" /\ ~Published(cyc)
        /\ failure.cause = "404") =>
        /\ png = OldPng
        /\ meta = OldMeta
        /\ exitCode = 0

\* C6: a request that fails with a non-2xx status or a network error is
\* issued again; the fetch is fatal only after more than one attempt.
C6_FetchRetriesBeforeFatal ==
    (pc = "failed" /\ failure.stage = "fetch" /\ Published(cyc)) =>
        /\ Len(requests) >= 2
        /\ \A i \in 1..Len(requests) : requests[i] = requests[1]

\* a <= b for two isoformat strings of the same shape: the order of the
\* fields read left to right.
IsoLeq(a, b) ==
    \/ a[1] < b[1]
    \/ a[1] = b[1] /\ a[2] < b[2]
    \/ a[1] = b[1] /\ a[2] = b[2] /\ a[3] < b[3]
    \/ a[1] = b[1] /\ a[2] = b[2] /\ a[3] = b[3] /\ a[4] <= b[4]

\* C7: after a run that completes, the record in OUT_META has exactly the
\* fields generated_utc, cycle_utc, bounds and levels; cycle_utc is the cycle
\* passed to the fetch, bounds are the bounding box passed to the fetch in
\* (west, east, south, north) order, levels are the renderer's breakpoints,
\* generated_utc is the run's now, and cycle_utc is not later than it.
C7_MetadataDescribesRun ==
    pc = "done" =>
        LET req == requests[Len(requests)]
            doc == meta.doc
        IN  /\ MetaNew
            /\ DOMAIN doc = {"generated_utc", "cycle_utc", "bounds", "levels"}
            /\ doc.cycle_utc = IsoFormat(req.ts_cycle)
            /\ DOMAIN doc.bounds = {"lon_w", "lon_e", "lat_s", "lat_n"}
            /\ <<doc.bounds.lon_w, doc.bounds.lon_e, doc.bounds.lat_s,
                 doc.bounds.lat_n>> = req.bbox
            /\ Str(doc.bounds.lon_w) = req.params.leftlon
            /\ Str(doc.bounds.lon_e) = req.params.rightlon
            /\ Str(doc.bounds.lat_s) = req.params.bottomlat
            /\ Str(doc.bounds.lat_n) = req.params.toplat
            /\ doc.levels = png.levels
            /\ doc.generated_utc = IsoFormat(now)
            /\ IsoLeq(doc.cycle_utc, doc.generated_utc)

C7_Witness ==
    /\ pc = "done"
    /\ exitCode = 0
    /\ now = DateTime(0, 23, 59, 59)
    /\ meta.doc.cycle_utc = IsoFormat(DateTime(0, 18, 0, 0))

FlatDeltaT == \A c \in Cells : ds.tmp_surface[c] = ds.tmp_850mb[c]

\* C8: every cell whose index is at or below LEVELS[0] = 0 is rendered fully
\* transparent, and a dataset with dT = 0 at every cell has index 0 at every
\* cell and gives an entirely transparent raster.
C8_AtOrBelowLowestIsTransparent ==
    PngNew =>
        /\ \A c \in Cells :
              FLe(swi[c], Rat(LEVELS[1], 1)) => png.pixels[c].alpha = 0
        /\ FlatDeltaT =>
              \A c \in Cells :
                  /\ ~swi[c].nan
                  /\ swi[c].n = 0
                  /\ png.pixels[c].alpha = 0

C8_Witness ==
    /\ pc = "rendered"
    /\ PngNew
    /\ FlatDeltaT
    /\ \E c \in Cells : ds.cape_surface[c] > 0
    /\ \E c \in Cells : \E e \in Cells : ds.div[c] # ds.div[e]

\* The breakpoint interval [LEVELS[k], LEVELS[k+1]) a value lies in, 0 when
\* it lies in none.
IntervalOf(v) ==
    LET ks == {k \in 1..(Len(LEVELS) - 1) :
                  FLe(Rat(LEVELS[k], 1), v) /\ FLt(v, Rat(LEVELS[k + 1], 1))}
    IN  IF ks = {} THEN 0 ELSE CHOOSE k \in ks : TRUE

\* The position in COLORS of a colour.
ColourIndex(col) ==
    CHOOSE i \in 1..Len(COLORS) :
        COLORS[i] = col /\ \A j \in 1..Len(COLORS) : COLORS[j] = col => i <= j

\* C9: the classification is a deterministic, monotonic step function: the
\* values of one breakpoint interval get one colour, two different intervals
\* never get the same colour, the colour index never decreases as the value
\* increases, and a value equal to an interior breakpoint belongs to the
\* interval that starts at it.
C9_ClassificationIsMonotonicStep ==
    PngNew =>
        \A c \in Cells : \A e \in Cells :
            LET v == swi[c]
                w == swi[e]
                pv == png.pixels[c]
                pw == png.pixels[e]
            IN  /\ (FLe(v, w) /\ FLe(w, v)) => pv = pw
                /\ (IntervalOf(v) # 0 /\ IntervalOf(w) # 0) =>
                      (IntervalOf(v) = IntervalOf(w) <=> pv = pw)
                /\ FLe(v, w) => ColourIndex(pv) <= ColourIndex(pw)
                /\ \A k \in 2..(Len(LEVELS) - 1) :
                      (~v.nan /\ v.n = LEVELS[k] * v.d) =>
                          /\ (FLt(v, w) /\ FLt(w, Rat(LEVELS[k + 1], 1))) => pv = pw
                          /\ (FLt(w, v) /\ FLe(Rat(LEVELS[k - 1], 1), w)) => pv # pw

C9_Witness ==
    /\ pc = "rendered"
    /\ PngNew
    /\ swi[1] = Rat(10, 1)
    /\ swi[2] = Rat(15, 1)
    /\ png.pixels[1] = png.pixels[2]

\* C10: every finite index value strictly greater than LEVELS[0] = 0 is
\* rendered with a colour that is not fully transparent.
C10_AboveLowestIsVisible ==
    PngNew =>
        \A c \in Cells :
            FLt(Rat(LEVELS[1], 1), swi[c]) => png.pixels[c].alpha # 0

=============================================================================
